---------------------------- MODULE Spec2Model ----------------------------
(***************************************************************************)
(* Model of promptfoo's evaluation setup (src/src/index.ts: evaluate,      *)
(* isOpenAIMessagesObjects) and of its OpenAI provider layer               *)
(* (src/unnamed/part_000: OpenAiGenericProvider, OpenAiCompletionProvider, *)
(* OpenAiChatCompletionProvider, loadApiProvider).                         *)
(*                                                                         *)
(* Four entry points are modelled, one per value of `mode`:                *)
(*   "load"      one call of loadApiProvider on a provider path            *)
(*   "call"      one call of callApi on an adapter                         *)
(*   "normalize" the prompt normalisation of evaluate, on its own          *)
(*   "evaluate"  one invocation of evaluate, await by await                *)
(*                                                                         *)
(* A JavaScript string is a sequence of tokens; the token ":" is the colon *)
(* and every other token is a run of characters holding no colon.          *)
(***************************************************************************)
EXTENDS Integers, Sequences, FiniteSets, TLC

VARIABLES
    mode,          \* which entry point this behaviour runs
    env,           \* process.env: [OPENAI_API_KEY |-> BOOLEAN]
    \* ---- loadApiProvider, called on its own
    providerPath,  \* the argument
    loadResult,    \* what the call settled to
    \* ---- callApi
    adapter,       \* the adapter callApi is invoked on
    prompt,        \* the prompt string
    callPc,        \* position inside callApi
    messages,      \* chat: the message list of the request body
    response,      \* how the fetch and the reading of its body went
    data,          \* the parsed response body
    result,        \* what callApi settled to
    \* ---- prompt normalisation
    promptsIn,     \* testSuite.prompts
    promptsOut,    \* constructedTestSuite.prompts
    \* ---- evaluate
    pc,            \* position inside evaluate
    testSuite,     \* the caller's suite: outputPath, writeLatestResults, prompts
    options,       \* the caller's options: cache
    loaded,        \* the tests as readTests returned them
    tests,         \* constructedTestSuite.tests, mutated in place
    ti,            \* nested resolution: index of the current test
    ai,            \* nested resolution: 0 = the test's own provider, k = assertion k
    calls,         \* the collaborators invoked and the steps done so far, in order
    thrown,        \* the collaborator whose failure ended the run ("" if none)
    loaderArgs,    \* the arguments loadApiProvider was invoked with, in order
    engineTests,   \* the tests handed to doEvaluate
    ret,           \* what doEvaluate returned
    outcome        \* how evaluate settled

loadVars == <<providerPath, loadResult>>
callVars == <<adapter, prompt, callPc, messages, response, data, result>>
normVars == <<promptsIn, promptsOut>>
evalVars == <<pc, testSuite, options, loaded, tests, ti, ai, calls, thrown,
              loaderArgs, engineTests, ret, outcome>>
vars == <<mode, env, loadVars, callVars, normVars, evalVars>>

---------------------------------------------------------------------------
(* Bounds *)

\* a provider path has at most this many colon-delimited segments
MaxSegments == 4

\* a prompt handed to callApi has at most this many tokens
MaxPromptLen == 5

\* a prompt collection given to the normaliser has at most this many elements
MaxPrompts == 3

\* a loaded test list has at most this many provider fields (one per test and
\* one per assertion)
MaxSlots == 2

---------------------------------------------------------------------------
(* Strings *)

Colon == ":"

\* the colon-free runs a provider path is built from ("" is the empty run)
Atoms == {"openai", "chat", "completion", "gpt-4", "text-davinci-003", "ft"}

RECURSIVE Join(_)
\* segs[1] + ":" + segs[2] + ... ; a segment is a sequence of atoms
Join(segs) ==
    IF Len(segs) = 0 THEN <<>>
    ELSE IF Len(segs) = 1 THEN segs[1]
    ELSE segs[1] \o <<Colon>> \o Join(Tail(segs))

RECURSIVE SplitFrom(_, _, _)
\* String.prototype.split(':') scanning s from position i with the segment
\* read so far in cur
SplitFrom(s, i, cur) ==
    IF i > Len(s) THEN <<cur>>
    ELSE IF s[i] = Colon THEN <<cur>> \o SplitFrom(s, i + 1, <<>>)
    ELSE SplitFrom(s, i + 1, Append(cur, s[i]))

Split(s) == SplitFrom(s, 1, <<>>)

\* providerPath.startsWith('openai:')
StartsWithOpenai(s) == Len(s) >= 2 /\ s[1] = "openai" /\ s[2] = Colon

\* options[k] of a split: undefined past the end
Undefined == <<"undefined">>
At(segs, k) == IF k <= Len(segs) THEN segs[k] ELSE Undefined

\* JavaScript truthiness of a string-or-undefined value
Truthy(seg) == seg # Undefined /\ seg # <<>>

---------------------------------------------------------------------------
(* Provider values *)

\* every value a provider field may hold, as one record shape:
\*   kind "undefined"                       no override
\*   kind "string"    str = the path
\*   kind "object"    idKind "undefined"/"string", str = the id
\*   kind "function"  tag = the callable's name
\*   kind "adapter"   tag = family, str = modelName  (a class instance)
NoProvider == [kind |-> "undefined", idKind |-> "none", str |-> <<>>, tag |-> ""]
StringSpec(s) == [kind |-> "string", idKind |-> "none", str |-> s, tag |-> ""]
ObjectNoId == [kind |-> "object", idKind |-> "undefined", str |-> <<>>, tag |-> ""]
ObjectSpec(id) == [kind |-> "object", idKind |-> "string", str |-> id, tag |-> ""]
ResolvedSpec(f) == [kind |-> "function", idKind |-> "none", str |-> <<>>, tag |-> f]
Adapter(family, modelName) ==
    [kind |-> "adapter", idKind |-> "none", str |-> modelName, tag |-> family]

\* typeof v
TypeOf(v) ==
    CASE v.kind = "undefined" -> "undefined"
      [] v.kind = "string" -> "string"
      [] v.kind = "function" -> "function"
      [] OTHER -> "object"

\* JavaScript truthiness of a provider field
TruthyValue(v) ==
    CASE v.kind = "undefined" -> FALSE
      [] v.kind = "string" -> v.str # <<>>
      [] OTHER -> TRUE

---------------------------------------------------------------------------
(* src/unnamed/part_000: the adapters' construction and identity *)

OPENAI_COMPLETION_MODELS ==
    {<<"text-davinci-003">>, <<"text-davinci-002">>, <<"text-curie-001">>,
     <<"text-babbage-001">>, <<"text-ada-001">>}

OPENAI_CHAT_MODELS ==
    {<<"gpt-4">>, <<"gpt-4-0314">>, <<"gpt-4-32k">>, <<"gpt-4-32k-0314">>,
     <<"gpt-3.5-turbo">>, <<"gpt-3.5-turbo-0301">>}

\* a settled call: ok with a value, or thrown with an error
Ok(v, warned) == [ok |-> TRUE, value |-> v, error |-> "", warned |-> warned]
Threw(e, warned) == [ok |-> FALSE, value |-> NoProvider, error |-> e, warned |-> warned]

\* OpenAiGenericProvider's constructor: the key is required
NewGeneric(family, modelName, keyPresent, warned) ==
    IF ~keyPresent THEN Threw("OpenAI API key is not set", warned)
    ELSE Ok(Adapter(family, modelName), warned)

\* new OpenAiCompletionProvider(modelName): warns on an unknown model, then super()
NewCompletion(modelName, keyPresent) ==
    NewGeneric("completion", modelName, keyPresent,
               modelName \notin OPENAI_COMPLETION_MODELS)

\* new OpenAiChatCompletionProvider(modelName)
NewChat(modelName, keyPresent) ==
    NewGeneric("chat", modelName, keyPresent, modelName \notin OPENAI_CHAT_MODELS)

\* id(): `openai:${this.modelName}`
Id(a) == <<"openai", Colon>> \o a.str

---------------------------------------------------------------------------
(* src/unnamed/part_000: loadApiProvider *)

\* loadApiProvider(arg): arg is a provider value as the caller passed it (the
\* declared type is string, the callers of index.ts also pass other values);
\* importOk is whether the dynamic import of a custom module succeeds
loadApiProvider(arg, keyPresent, importOk) ==
    IF arg.kind \notin {"string", "undefined"}
    THEN \* providerPath?.startsWith is not a function
         Threw("TypeError: providerPath.startsWith is not a function", FALSE)
    ELSE IF arg.kind = "string" /\ StartsWithOpenai(arg.str)
    THEN LET opts == Split(arg.str)
             modelType == At(opts, 2)
             modelName == At(opts, 3)
         IN IF modelType = <<"chat">>
            THEN NewChat(IF Truthy(modelName) THEN modelName ELSE <<"gpt-3.5-turbo">>,
                         keyPresent)
            ELSE IF modelType = <<"completion">>
            THEN NewCompletion(IF Truthy(modelName) THEN modelName
                               ELSE <<"text-davinci-003">>, keyPresent)
            ELSE IF modelType \in OPENAI_CHAT_MODELS
            THEN NewChat(modelType, keyPresent)
            ELSE IF modelType \in OPENAI_COMPLETION_MODELS
            THEN NewCompletion(modelType, keyPresent)
            ELSE Threw("Unknown OpenAI model type", FALSE)
    ELSE \* the custom module at path.join(cwd, providerPath)
         IF arg.kind = "string" /\ importOk
         THEN Ok(Adapter("custom", arg.str), FALSE)
         ELSE Threw("module loading error", FALSE)


Pending == [ok |-> FALSE, value |-> NoProvider, error |-> "pending", warned |-> FALSE]

\* the provider paths tried: every string of at most MaxSegments segments,
\* each segment one atom or empty
Segments == {<<a>> : a \in Atoms} \cup {<<>>}
PathStrings ==
    {Join(segs) : segs \in UNION {[1..n -> Segments] : n \in 1..MaxSegments}}

---------------------------------------------------------------------------
(* JSON text of prompts: JSON.parse on a small grammar *)

\* "{turn}" is the text of one role/content object, "42" of a number, "hello"
\* is a bare word (no JSON value); "[", "]" and "," are themselves
PromptTokens == {"[", "]", ",", "{turn}", "42", "hello"}

Prompts == UNION {[1..n -> PromptTokens] : n \in 0..MaxPromptLen}

JTurn(role, content) == [t |-> "turn", role |-> role, content |-> content, items |-> <<>>]
JNum == [t |-> "num", role |-> "", content |-> <<>>, items |-> <<>>]
JArr(items) == [t |-> "arr", role |-> "", content |-> <<>>, items |-> items]
JNone == [t |-> "none", role |-> "", content |-> <<>>, items |-> <<>>]

ParseFail == [ok |-> FALSE, val |-> JNone, next |-> 0]
Parsed(v, n) == [ok |-> TRUE, val |-> v, next |-> n]

RECURSIVE ParseValue(_, _)
RECURSIVE ParseElems(_, _, _)
\* one JSON value starting at token i
ParseValue(s, i) ==
    IF i > Len(s) THEN ParseFail
    ELSE IF s[i] = "{turn}" THEN Parsed(JTurn("user", <<"hi">>), i + 1)
    ELSE IF s[i] = "42" THEN Parsed(JNum, i + 1)
    ELSE IF s[i] = "["
    THEN IF i + 1 <= Len(s) /\ s[i + 1] = "]" THEN Parsed(JArr(<<>>), i + 2)
         ELSE ParseElems(s, i + 1, <<>>)
    ELSE ParseFail
\* the elements of an array after "[", acc the elements read so far
ParseElems(s, i, acc) ==
    LET v == ParseValue(s, i)
    IN IF ~v.ok \/ v.next > Len(s) THEN ParseFail
       ELSE IF s[v.next] = "," THEN ParseElems(s, v.next + 1, Append(acc, v.val))
       ELSE IF s[v.next] = "]" THEN Parsed(JArr(Append(acc, v.val)), v.next + 1)
       ELSE ParseFail

\* JSON.parse(s): the whole text must be one value
JSONparse(s) ==
    LET v == ParseValue(s, 1)
    IN IF v.ok /\ v.next = Len(s) + 1 THEN v ELSE ParseFail

---------------------------------------------------------------------------
(* Response bodies *)

U == "undefined"

\* choices[0]: its text, and its message with its content
Choices ==
    {[text |-> t, hasMessage |-> FALSE, content |-> U] : t \in {U, "str"}}
    \cup {[text |-> t, hasMessage |-> TRUE, content |-> c] :
            t \in {U, "str"}, c \in {U, "str"}}

\* what response.json() may yield: null, or an object with or without a
\* choices array (empty or with a first choice) and with or without usage
NullBody == [isObject |-> FALSE, hasChoices |-> FALSE, choices |-> <<>>, hasUsage |-> FALSE]
Bodies ==
    {NullBody}
    \cup {[isObject |-> TRUE, hasChoices |-> FALSE, choices |-> <<>>, hasUsage |-> u] :
            u \in BOOLEAN}
    \cup {[isObject |-> TRUE, hasChoices |-> TRUE, choices |-> cs, hasUsage |-> u] :
            cs \in {<<>>} \cup {<<c>> : c \in Choices}, u \in BOOLEAN}

\* a settled callApi
Rejected(e) == [threw |-> TRUE, output |-> U, error |-> e]
Success(out) == [threw |-> FALSE, output |-> out, error |-> U]
Failure(e) == [threw |-> FALSE, output |-> U, error |-> e]
NoResult == [threw |-> FALSE, output |-> U, error |-> "pending"]

\* whether reading data.choices[0] throws
FirstChoiceThrows(d) == ~d.isObject \/ ~d.hasChoices
\* whether reading data.usage.total_tokens throws
UsageThrows(d) == ~d.isObject \/ ~d.hasUsage

\* OpenAiCompletionProvider.callApi, lines 92-105: the result read off the body
CompletionResult(d) ==
    IF FirstChoiceThrows(d) \/ Len(d.choices) = 0 \/ UsageThrows(d)
    THEN Failure("API response error")
    ELSE Success(d.choices[1].text)

\* OpenAiChatCompletionProvider.callApi, lines 165-178
ChatResult(d) ==
    IF FirstChoiceThrows(d) \/ Len(d.choices) = 0 \/ ~d.choices[1].hasMessage
       \/ UsageThrows(d)
    THEN Failure("API response error")
    ELSE Success(d.choices[1].content)

\* OpenAiChatCompletionProvider.callApi, lines 127-134: the message list
ChatMessages(p) ==
    LET v == JSONparse(p)
    IN IF v.ok THEN v.val ELSE JArr(<<JTurn("user", p)>>)

---------------------------------------------------------------------------
(* Prompt normalisation: src/src/index.ts lines 28-43 and 93-101 *)

\* the elements of testSuite.prompts: two strings, two plain objects, an
\* array and null
Elements ==
    {[cls |-> "string", name |-> n] : n \in {"a", "b"}}
    \cup {[cls |-> "object", name |-> n] : n \in {"o1", "o2"}}
    \cup {[cls |-> "array", name |-> "l"], [cls |-> "null", name |-> ""]}

PromptCollections == UNION {[1..n -> Elements] : n \in 0..MaxPrompts}

\* typeof element
TypeOfElement(e) == IF e.cls = "string" THEN "string" ELSE "object"

\* JSON.stringify of one element
Stringify(e) ==
    CASE e.cls = "string" -> <<"\"", e.name, "\"">>
      [] e.cls = "object" -> <<"{", e.name, "}">>
      [] e.cls = "array" -> <<"[", e.name, "]">>
      [] OTHER -> <<"null">>

RECURSIVE StringifyItems(_)
StringifyItems(arr) ==
    IF Len(arr) = 0 THEN <<>>
    ELSE IF Len(arr) = 1 THEN Stringify(arr[1])
    ELSE Stringify(arr[1]) \o <<",">> \o StringifyItems(Tail(arr))

\* JSON.stringify of the whole collection
StringifyArray(arr) == <<"[">> \o StringifyItems(arr) \o <<"]">>

\* isOpenAIMessagesObjects with the `element !== null` test left out
isOpenAIMessagesObjectsNoNullTest(arr) ==
    \A i \in 1..Len(arr) : TypeOfElement(arr[i]) = "object" /\ arr[i].cls # "array"

\* isOpenAIMessagesObjects(arr), arr an array
isOpenAIMessagesObjects(arr) ==
    \A i \in 1..Len(arr) :
        TypeOfElement(arr[i]) = "object" /\ arr[i].cls # "null" /\ arr[i].cls # "array"

PromptEntry(text) == [raw |-> text, display |-> text]

\* the prompts field of constructedTestSuite
NormalizePrompts(arr) ==
    IF isOpenAIMessagesObjects(arr) THEN <<PromptEntry(StringifyArray(arr))>>
    ELSE [i \in 1..Len(arr) |->
            IF TypeOfElement(arr[i]) = "string" THEN PromptEntry(<<arr[i].name>>)
            ELSE PromptEntry(Stringify(arr[i]))]


---------------------------------------------------------------------------
(* Idle values of the variables an entry point does not use *)

IdleLoad == providerPath = <<>> /\ loadResult = Pending
IdleCall ==
    /\ adapter = NoProvider /\ prompt = <<>> /\ callPc = "idle"
    /\ messages = JNone /\ response = "none" /\ data = NullBody /\ result = NoResult
IdleNorm == promptsIn = <<>> /\ promptsOut = <<>>
NoRet == "none"
Running == [status |-> "running", value |-> NoRet, error |-> ""]
IdleEval ==
    /\ pc = "idle" /\ testSuite = [outputPath |-> "none", writeLatestResults |-> FALSE]
    /\ options = [cache |-> U] /\ loaded = <<>> /\ tests = <<>> /\ ti = 0 /\ ai = 0
    /\ calls = <<>> /\ thrown = "" /\ loaderArgs = <<>> /\ engineTests = <<>>
    /\ ret = NoRet /\ outcome = Running

---------------------------------------------------------------------------
(* loadApiProvider, called on its own *)

InitLoad ==
    /\ mode = "load"
    /\ env \in [OPENAI_API_KEY : BOOLEAN]
    /\ providerPath \in PathStrings
    /\ loadResult = Pending
    /\ IdleCall /\ IdleNorm /\ IdleEval

\* await loadApiProvider(providerPath)
LoadApiProvider ==
    /\ mode = "load"
    /\ loadResult = Pending
    /\ \E importOk \in BOOLEAN :
          loadResult' = loadApiProvider(StringSpec(providerPath), env.OPENAI_API_KEY,
                                        importOk)
    /\ UNCHANGED <<mode, env, providerPath, callVars, normVars, evalVars>>

---------------------------------------------------------------------------
(* callApi *)

Families == {"generic", "completion", "chat"}

InitCall ==
    /\ mode = "call"
    /\ env = [OPENAI_API_KEY |-> TRUE]
    /\ adapter \in {Adapter(f, <<"gpt-4">>) : f \in Families}
    /\ prompt \in Prompts
    /\ callPc = "start"
    /\ messages = JNone /\ response = "none" /\ data = NullBody /\ result = NoResult
    /\ IdleLoad /\ IdleNorm /\ IdleEval

\* OpenAiGenericProvider.callApi: throw new Error('Not implemented')
GenericCallApi ==
    /\ mode = "call" /\ callPc = "start"
    /\ adapter.tag = "generic"
    /\ result' = Rejected("Not implemented")
    /\ callPc' = "done"
    /\ UNCHANGED <<mode, env, adapter, prompt, messages, response, data, loadVars,
                   normVars, evalVars>>

\* OpenAiCompletionProvider.callApi up to the await of fetchWithTimeout
CompletionRequest ==
    /\ mode = "call" /\ callPc = "start"
    /\ adapter.tag = "completion"
    /\ callPc' = "fetch"
    /\ UNCHANGED <<mode, env, adapter, prompt, messages, response, data, result,
                   loadVars, normVars, evalVars>>

\* OpenAiChatCompletionProvider.callApi up to the await of fetchWithTimeout
ChatRequest ==
    /\ mode = "call" /\ callPc = "start"
    /\ adapter.tag = "chat"
    /\ messages' = ChatMessages(prompt)
    /\ callPc' = "fetch"
    /\ UNCHANGED <<mode, env, adapter, prompt, response, data, result, loadVars,
                   normVars, evalVars>>

\* fetchWithTimeout or response.json() throws: the first catch
TransportFails ==
    /\ mode = "call" /\ callPc = "fetch"
    /\ \E how \in {"timeout", "connection error", "unreadable body"} :
          response' = how
    /\ result' = Failure("API call error")
    /\ callPc' = "done"
    /\ UNCHANGED <<mode, env, adapter, prompt, messages, data, loadVars, normVars,
                   evalVars>>

\* the body is read, and the result is built from it in the second try
BodyRead ==
    /\ mode = "call" /\ callPc = "fetch"
    /\ \E d \in Bodies :
          /\ data' = d
          /\ result' = IF adapter.tag = "chat" THEN ChatResult(d)
                       ELSE CompletionResult(d)
    /\ response' = "ok"
    /\ callPc' = "done"
    /\ UNCHANGED <<mode, env, adapter, prompt, messages, loadVars, normVars, evalVars>>

---------------------------------------------------------------------------
(* prompt normalisation on its own *)

InitNorm ==
    /\ mode = "normalize"
    /\ env = [OPENAI_API_KEY |-> TRUE]
    /\ promptsIn \in PromptCollections
    /\ promptsOut = <<>>
    /\ pc = "build"
    /\ testSuite = [outputPath |-> "none", writeLatestResults |-> FALSE]
    /\ options = [cache |-> U] /\ loaded = <<>> /\ tests = <<>> /\ ti = 0 /\ ai = 0
    /\ calls = <<>> /\ thrown = "" /\ loaderArgs = <<>> /\ engineTests = <<>>
    /\ ret = NoRet /\ outcome = Running
    /\ IdleLoad /\ IdleCall

\* the prompts property of the object literal, lines 28-43
Normalize ==
    /\ mode = "normalize" /\ pc = "build"
    /\ promptsOut' = NormalizePrompts(promptsIn)
    /\ pc' = "built"
    /\ UNCHANGED <<mode, env, promptsIn, testSuite, options, loaded, tests, ti, ai,
                   calls, thrown, loaderArgs, engineTests, ret, outcome, loadVars,
                   callVars>>


---------------------------------------------------------------------------
(* evaluate: src/src/index.ts lines 17-91 *)

\* the values a loaded test or assertion carries in its provider field: none, a
\* path, an object without id, with an empty id and with an id, a callable, and
\* an adapter instance constructed by the caller
ProviderValues ==
    {NoProvider,
     StringSpec(Join(<<<<"openai">>, <<"chat">>, <<"gpt-4">>>>)),
     ObjectNoId,
     ObjectSpec(<<>>),
     ObjectSpec(Join(<<<<"openai">>, <<"completion">>, <<"text-davinci-003">>>>)),
     ResolvedSpec("f"),
     Adapter("chat", <<"gpt-4">>)}

RECURSIVE TestLists(_)
\* the test lists with at most k provider fields
TestLists(k) ==
    {<<>>} \cup
    UNION {{<<[provider |-> p, assert |-> as]>> \o rest :
              p \in ProviderValues,
              as \in [1..n -> [provider : ProviderValues]],
              rest \in TestLists(k - 1 - n)} : n \in 0..(k - 1)}

\* the prompts of the suites evaluated
PromptSamples ==
    {<<[cls |-> "string", name |-> "a"]>>,
     <<[cls |-> "object", name |-> "o1"], [cls |-> "object", name |-> "o2"]>>}

\* what doEvaluate may return
Results == {"r1", "r2"}

InitEval ==
    /\ mode = "evaluate"
    /\ env \in [OPENAI_API_KEY : BOOLEAN]
    /\ testSuite \in [outputPath : {"none", "string", "array"},
                      writeLatestResults : BOOLEAN]
    /\ options \in [cache : {U, "true", "false"}]
    /\ promptsIn \in PromptSamples
    /\ promptsOut = <<>>
    /\ pc = "start"
    /\ loaded = <<>> /\ tests = <<>> /\ ti = 0 /\ ai = 0
    /\ calls = <<>> /\ thrown = "" /\ loaderArgs = <<>> /\ engineTests = <<>>
    /\ ret = NoRet /\ outcome = Running
    /\ IdleLoad /\ IdleCall

\* evaluate rejects with the error collaborator `who` threw
Fail(who, error) ==
    /\ pc' = "failed"
    /\ thrown' = who
    /\ outcome' = [status |-> "threw", value |-> NoRet, error |-> error]

\* line 20: await loadApiProviders(testSuite.providers, {env})
LoadApiProviders ==
    /\ mode = "evaluate" /\ pc = "start"
    /\ calls' = Append(calls, "loadApiProviders")
    /\ \E ok \in BOOLEAN :
          IF ok THEN pc' = "readTests" /\ UNCHANGED <<thrown, outcome>>
          ELSE Fail("loadApiProviders", "provider loading error")
    /\ UNCHANGED <<mode, env, testSuite, options, loaded, tests, ti, ai, loaderArgs,
                   engineTests, ret, loadVars, callVars, normVars>>

\* line 23: await readTests(testSuite.tests)
ReadTests ==
    /\ mode = "evaluate" /\ pc = "readTests"
    /\ calls' = Append(calls, "readTests")
    /\ \/ \E ts \in TestLists(MaxSlots) :
             /\ loaded' = ts /\ tests' = ts
             /\ pc' = "build"
             /\ UNCHANGED <<thrown, outcome>>
       \/ /\ Fail("readTests", "test loading error")
          /\ UNCHANGED <<loaded, tests>>
    /\ UNCHANGED <<mode, env, testSuite, options, ti, ai, loaderArgs, engineTests, ret,
                   loadVars, callVars, normVars>>

\* lines 25-44: readFilters, then the prompts, then the loop is entered
BuildSuite ==
    /\ mode = "evaluate" /\ pc = "build"
    /\ \/ /\ calls' = calls \o <<"readFilters", "normalizePrompts">>
          /\ promptsOut' = NormalizePrompts(promptsIn)
          /\ IF Len(tests) = 0 THEN pc' = "settings" /\ ti' = 1
             ELSE pc' = "resolve" /\ ti' = 1
          /\ UNCHANGED <<thrown, outcome>>
       \/ /\ calls' = Append(calls, "readFilters")
          /\ Fail("readFilters", "filter loading error")
          /\ UNCHANGED <<promptsOut, ti>>
    /\ UNCHANGED <<mode, env, testSuite, options, loaded, tests, ai, loaderArgs,
                   engineTests, ret, promptsIn, loadVars, callVars>>

\* the loop position after provider field a of test t (a = 0: the test's own)
NextTi(ts, t, a) == IF a < Len(ts[t].assert) THEN t ELSE t + 1
NextAi(ts, t, a) == IF a < Len(ts[t].assert) THEN a + 1 ELSE 0

\* the position moves on; the loop ends after the last test
Advance ==
    /\ ti' = NextTi(tests, ti, ai)
    /\ ai' = NextAi(tests, ti, ai)
    /\ pc' = IF NextTi(tests, ti, ai) > Len(tests) THEN "settings" ELSE "resolve"

\* line 48: the condition under which a test's own provider is loaded
LoadsTestProvider(v) == TruthyValue(v) /\ TypeOf(v) = "function"

\* casted.id of an object: its id string, undefined, or (an adapter instance)
\* the method id
IdOf(v) ==
    IF v.kind = "adapter" THEN ResolvedSpec("id")
    ELSE IF v.idKind = "string" THEN StringSpec(v.str)
    ELSE NoProvider

\* await loadApiProvider(arg) inside the loop; seat is where the adapter goes
\* (0 = the test's own provider, k = assertion k)
LoadInto(arg, seat) ==
    /\ calls' = Append(calls, "loadApiProvider")
    /\ loaderArgs' = Append(loaderArgs, arg)
    /\ \E importOk \in BOOLEAN :
          LET r == loadApiProvider(arg, env.OPENAI_API_KEY, importOk)
          IN IF r.ok
             THEN /\ tests' = IF seat = 0
                              THEN [tests EXCEPT ![ti].provider = r.value]
                              ELSE [tests EXCEPT ![ti].assert[seat].provider = r.value]
                  /\ Advance
                  /\ UNCHANGED <<thrown, outcome>>
             ELSE /\ Fail("loadApiProvider", r.error)
                  /\ UNCHANGED <<tests, ti, ai>>

\* the field is left as it is
Skip ==
    /\ Advance
    /\ UNCHANGED <<tests, calls, loaderArgs, thrown, outcome>>

\* lines 48-50: the test's own provider
ResolveTestProvider ==
    /\ mode = "evaluate" /\ pc = "resolve" /\ ai = 0
    /\ IF LoadsTestProvider(tests[ti].provider)
       THEN LoadInto(tests[ti].provider, 0)
       ELSE Skip
    /\ UNCHANGED <<mode, env, testSuite, options, loaded, engineTests, ret, loadVars,
                   callVars, normVars>>

\* lines 52-64: one assertion of the test
ResolveAssertion ==
    /\ mode = "evaluate" /\ pc = "resolve" /\ ai >= 1
    /\ LET v == tests[ti].assert[ai].provider
       IN IF ~TruthyValue(v) THEN Skip
          ELSE IF TypeOf(v) = "object"
          THEN IF TruthyValue(IdOf(v)) THEN LoadInto(IdOf(v), ai)
               ELSE /\ Fail("invariant", "Provider object must have an id")
                    /\ UNCHANGED <<tests, ti, ai, calls, loaderArgs>>
          ELSE IF TypeOf(v) = "string" THEN LoadInto(v, ai)
          ELSE Skip
    /\ UNCHANGED <<mode, env, testSuite, options, loaded, engineTests, ret, loadVars,
                   callVars, normVars>>

\* ApplySettings testing `!options.cache` in place of `options.cache === false`
ApplySettingsFalsyCache ==
    /\ mode = "evaluate" /\ pc = "settings"
    /\ calls' = calls \o (IF options.cache # "true" THEN <<"disableCache">> ELSE <<>>)
                      \o <<"maybeShowNotice">>
    /\ pc' = "engine"
    /\ UNCHANGED <<mode, env, testSuite, options, loaded, tests, ti, ai, thrown,
                   loaderArgs, engineTests, ret, outcome, loadVars, callVars, normVars>>

\* lines 69-72: the cache setting and the telemetry notice
ApplySettings ==
    /\ mode = "evaluate" /\ pc = "settings"
    /\ calls' = calls \o (IF options.cache = "false" THEN <<"disableCache">> ELSE <<>>)
                      \o <<"maybeShowNotice">>
    /\ pc' = "engine"
    /\ UNCHANGED <<mode, env, testSuite, options, loaded, tests, ti, ai, thrown,
                   loaderArgs, engineTests, ret, outcome, loadVars, callVars, normVars>>

\* line 75: doEvaluate(constructedTestSuite, options) is called
InvokeEngine ==
    /\ mode = "evaluate" /\ pc = "engine"
    /\ calls' = Append(calls, "doEvaluate")
    /\ engineTests' = tests
    /\ pc' = "awaitEngine"
    /\ UNCHANGED <<mode, env, testSuite, options, loaded, tests, ti, ai, thrown,
                   loaderArgs, ret, outcome, loadVars, callVars, normVars>>

\* line 75: the await settles
EngineSettles ==
    /\ mode = "evaluate" /\ pc = "awaitEngine"
    /\ \/ \E r \in Results :
             ret' = r /\ pc' = "write" /\ UNCHANGED <<thrown, outcome>>
       \/ Fail("doEvaluate", "evaluation error") /\ UNCHANGED ret
    /\ UNCHANGED <<mode, env, testSuite, options, loaded, tests, ti, ai, calls,
                   loaderArgs, engineTests, loadVars, callVars, normVars>>

\* the writer line 77-83 selects
OutputWriter ==
    IF testSuite.outputPath = "string" THEN <<"writeOutput">>
    ELSE IF testSuite.outputPath = "array" THEN <<"writeMultipleOutputs">>
    ELSE <<>>

\* lines 77-87: the output writers, each of which may throw
WriteResults ==
    /\ mode = "evaluate" /\ pc = "write"
    /\ \/ /\ OutputWriter # <<>>
          /\ calls' = calls \o OutputWriter
          /\ Fail(OutputWriter[1], "write error")
       \/ /\ testSuite.writeLatestResults
          /\ calls' = calls \o OutputWriter \o <<"writeLatestResults">>
          /\ Fail("writeLatestResults", "write error")
       \/ /\ calls' = calls \o OutputWriter
                      \o (IF testSuite.writeLatestResults THEN <<"writeLatestResults">>
                          ELSE <<>>)
          /\ pc' = "send"
          /\ UNCHANGED <<thrown, outcome>>
    /\ UNCHANGED <<mode, env, testSuite, options, loaded, tests, ti, ai, loaderArgs,
                   engineTests, ret, loadVars, callVars, normVars>>

\* TelemetrySend with the `return ret` left out
TelemetrySendNoReturn ==
    /\ mode = "evaluate" /\ pc = "send"
    /\ calls' = Append(calls, "telemetry.send")
    /\ \/ /\ outcome' = [status |-> "returned", value |-> NoRet, error |-> ""]
          /\ pc' = "done"
          /\ UNCHANGED thrown
       \/ Fail("telemetry.send", "telemetry error")
    /\ UNCHANGED <<mode, env, testSuite, options, loaded, tests, ti, ai, loaderArgs,
                   engineTests, ret, loadVars, callVars, normVars>>

\* lines 89-90: await telemetry.send(), then return ret
TelemetrySend ==
    /\ mode = "evaluate" /\ pc = "send"
    /\ calls' = Append(calls, "telemetry.send")
    /\ \/ /\ outcome' = [status |-> "returned", value |-> ret, error |-> ""]
          /\ pc' = "done"
          /\ UNCHANGED thrown
       \/ Fail("telemetry.send", "telemetry error")
    /\ UNCHANGED <<mode, env, testSuite, options, loaded, tests, ti, ai, loaderArgs,
                   engineTests, ret, loadVars, callVars, normVars>>

---------------------------------------------------------------------------
(* Specifications *)

NextLoad == LoadApiProvider
NextCall ==
    \/ GenericCallApi
    \/ CompletionRequest
    \/ ChatRequest
    \/ TransportFails
    \/ BodyRead
NextNorm == Normalize
NextEval ==
    \/ LoadApiProviders
    \/ ReadTests
    \/ BuildSuite
    \/ ResolveTestProvider
    \/ ResolveAssertion
    \/ ApplySettings
    \/ InvokeEngine
    \/ EngineSettles
    \/ WriteResults
    \/ TelemetrySend

Init == InitLoad \/ InitCall \/ InitNorm \/ InitEval
Next == NextLoad \/ NextCall \/ NextNorm \/ NextEval
Spec == Init /\ [][Next]_vars

SpecLoad == InitLoad /\ [][NextLoad]_vars
SpecCall == InitCall /\ [][NextCall]_vars
SpecNorm == InitNorm /\ [][NextNorm]_vars
SpecEval == InitEval /\ [][NextEval]_vars


---------------------------------------------------------------------------
(* Properties *)

Called(c) == \E i \in 1..Len(calls) : calls[i] = c

\* an override the resolver is to replace: a string, or an object with an id
Resolvable(v) == v.kind = "string" \/ (v.kind = "object" /\ TruthyValue(IdOf(v)))
\* the path such an override is loaded from
PathOf(v) == IF v.kind = "string" THEN v ELSE IdOf(v)
\* the field holds a concrete adapter loaded from override v
ResolvedFrom(field, v) ==
    /\ field.kind = "adapter"
    /\ \E importOk \in BOOLEAN :
          field = loadApiProvider(PathOf(v), env.OPENAI_API_KEY, importOk).value

\* C1: when the Evaluation Engine is invoked, every test's own override and
\* every assertion's override that was a string or an object with an id has been
\* replaced by the adapter loaded from it, and no string or object override is
\* left in the tests handed to the engine.
C1_OverridesResolvedBeforeEngine ==
    (Called("doEvaluate") /\ env.OPENAI_API_KEY) =>
        \A t \in 1..Len(loaded) :
            /\ Resolvable(loaded[t].provider) =>
                   ResolvedFrom(engineTests[t].provider, loaded[t].provider)
            /\ engineTests[t].provider.kind \notin {"string", "object"}
            /\ \A a \in 1..Len(loaded[t].assert) :
                   /\ Resolvable(loaded[t].assert[a].provider) =>
                          ResolvedFrom(engineTests[t].assert[a].provider,
                                       loaded[t].assert[a].provider)
                   /\ engineTests[t].assert[a].provider.kind \notin {"string", "object"}

\* the nested resolution is over: the loop has ended or the run has failed
SetupOver == pc \in {"settings", "engine", "awaitEngine", "write", "send", "done", "failed"}

\* C2: an override that is already a callable is left untouched, on a test and
\* on an assertion: loadApiProvider is never invoked with it, no run fails in
\* the loader because of it, and after setup the field holds the same callable.
C2_CallablesUntouched ==
    /\ \A i \in 1..Len(loaderArgs) : TypeOf(loaderArgs[i]) # "function"
    /\ SetupOver =>
          \A t \in 1..Len(loaded) :
              /\ loaded[t].provider.kind = "function" =>
                     tests[t].provider = loaded[t].provider
              /\ \A a \in 1..Len(loaded[t].assert) :
                     loaded[t].assert[a].provider.kind = "function" =>
                         tests[t].assert[a].provider = loaded[t].assert[a].provider

\* an object override with no non-empty id
LacksId(v) == v.kind = "object" /\ ~TruthyValue(IdOf(v))
HasObjectLackingId(ts) ==
    \E t \in 1..Len(ts) :
        \/ LacksId(ts[t].provider)
        \/ \E a \in 1..Len(ts[t].assert) : LacksId(ts[t].assert[a].provider)

\* C3: when a loaded test or assertion carries an object override with no
\* non-empty id, the engine is never invoked and evaluate does not return.
C3_ObjectLackingIdStopsRun ==
    HasObjectLackingId(loaded) => ~Called("doEvaluate") /\ pc # "done"

Settled == pc \in {"done", "failed"}

\* C4 as claimed: once the engine has returned a result, evaluate settles by
\* returning that result, whatever the later steps do.
C4_ResultSurvivesLaterFailure ==
    (ret # NoRet /\ Settled) => outcome.status = "returned" /\ outcome.value = ret

\* C4 as amended: once the engine has returned a result, evaluate returns it
\* unchanged when no later step throws, and when an output writer, the latest
\* results writer or the telemetry flush throws, evaluate rejects with that
\* error and returns no result.
C4_ResultReturnedUnlessLaterStepThrows ==
    (ret # NoRet /\ Settled) =>
        IF thrown = ""
        THEN outcome = [status |-> "returned", value |-> ret, error |-> ""]
        ELSE /\ thrown \in {"writeOutput", "writeMultipleOutputs", "writeLatestResults",
                            "telemetry.send"}
             /\ Called(thrown)
             /\ outcome.status = "threw" /\ outcome.value = NoRet

\* evaluate returned the engine's result after both writers and the flush ran
C4_Witness ==
    /\ pc = "done" /\ outcome.value = ret /\ ret \in Results
    /\ Called("writeOutput") /\ Called("writeLatestResults") /\ Called("telemetry.send")

IsStage(c) == c # "loadApiProvider"
\* the steps up to the engine, in the order of the source
SetupOrder ==
    <<"loadApiProviders", "readTests", "readFilters", "normalizePrompts">>
    \o (IF options.cache = "false" THEN <<"disableCache">> ELSE <<>>)
    \o <<"maybeShowNotice", "doEvaluate">>
FirstIndex(c) == CHOOSE i \in 1..Len(calls) : calls[i] = c /\ \A j \in 1..(i - 1) : calls[j] # c
Count(c) == Cardinality({i \in 1..Len(calls) : calls[i] = c})

\* C5: the engine is invoked only after top-level provider resolution, test
\* loading, prompt normalisation, the nested resolution and the cache setting,
\* in that order; disableCache is invoked at most once and only when
\* options.cache is false; when a step before the engine fails, neither the
\* engine nor a writer nor the telemetry flush is invoked.
C5_EngineAfterSetup ==
    /\ Called("doEvaluate") =>
          /\ SelectSeq(SubSeq(calls, 1, FirstIndex("doEvaluate")), IsStage) = SetupOrder
          /\ \A i \in 1..Len(calls) :
                calls[i] = "loadApiProvider" =>
                    /\ FirstIndex("normalizePrompts") < i
                    /\ i < FirstIndex("maybeShowNotice")
                    /\ Called("disableCache") => i < FirstIndex("disableCache")
          /\ ti = Len(tests) + 1 /\ ai = 0
          /\ promptsOut = NormalizePrompts(promptsIn)
          /\ engineTests = tests
    /\ Count("disableCache") <= 1 /\ Count("doEvaluate") <= 1
    /\ Called("disableCache") => options.cache = "false"
    /\ thrown \in {"loadApiProviders", "readTests", "readFilters", "loadApiProvider",
                   "invariant"} =>
          \A c \in {"doEvaluate", "writeOutput", "writeMultipleOutputs",
                    "writeLatestResults", "telemetry.send"} : ~Called(c)

\* the engine was invoked after a nested provider was loaded and the cache disabled
C5_Witness ==
    Called("doEvaluate") /\ Called("disableCache") /\ Called("loadApiProvider")

\* the body has the shape the adapter reads: a first choice with its text
\* (completion) or its message content (chat), and usage
ShapeOk(family, d) ==
    /\ d.isObject /\ d.hasChoices /\ Len(d.choices) > 0 /\ d.hasUsage
    /\ IF family = "chat"
       THEN d.choices[1].hasMessage /\ d.choices[1].content # U
       ELSE d.choices[1].text # U

\* C6: callApi of every adapter settles by returning a result, never by
\* throwing, and a transport failure or a body of an unexpected shape is
\* returned as a failure result.
C6_CallApiNeverThrows ==
    (mode = "call" /\ callPc = "done") =>
        /\ ~result.threw
        /\ (response # "ok" \/ ~ShapeOk(adapter.tag, data)) =>
               result.error # U /\ result.output = U

\* C7: a result of the completion or chat adapter has exactly one of output
\* and error populated.
C7_ExactlyOnePopulated ==
    (mode = "call" /\ callPc = "done" /\ adapter.tag \in {"completion", "chat"}) =>
        (result.output # U) # (result.error # U)

\* the prompt lists the normaliser is claimed to fold into one entry
AllPlainObjects(arr) == \A i \in 1..Len(arr) : arr[i].cls = "object"

\* C8: a collection whose elements are all non-array objects gives exactly one
\* entry holding the serialisation of the whole collection; any other
\* collection gives one entry per element, in order, a string unchanged and
\* anything else serialised; raw equals display in every entry.
C8_NormalizedPrompts ==
    (mode = "normalize" /\ pc = "built") =>
        /\ IF AllPlainObjects(promptsIn)
           THEN /\ Len(promptsOut) = 1
                /\ promptsOut[1].raw = StringifyArray(promptsIn)
                /\ promptsOut[1].display = StringifyArray(promptsIn)
           ELSE /\ Len(promptsOut) = Len(promptsIn)
                /\ \A i \in 1..Len(promptsIn) :
                      LET text == IF promptsIn[i].cls = "string"
                                  THEN <<promptsIn[i].name>>
                                  ELSE Stringify(promptsIn[i])
                      IN promptsOut[i].raw = text /\ promptsOut[i].display = text
        /\ \A i \in 1..Len(promptsOut) : promptsOut[i].raw = promptsOut[i].display

\* a collection of a plain object and null was mapped element by element
C8_Witness ==
    /\ mode = "normalize" /\ pc = "built"
    /\ Len(promptsIn) = 2 /\ promptsIn[1].cls = "object" /\ promptsIn[2].cls = "null"
    /\ Len(promptsOut) = 2

\* a model name: not empty, no colon first or last, no two colons in a row
ModelName(m) == Len(m) > 0 /\ \A i \in 1..Len(Split(m)) : Split(m)[i] # <<>>

\* C9: with a credential present, 'openai:chat:<model>' loads a chat adapter and
\* 'openai:completion:<model>' a completion adapter, each with id()
\* 'openai:<model>', for every model name.
C9_IdIsVendorModel ==
    (mode = "load" /\ loadResult # Pending /\ env.OPENAI_API_KEY) =>
        \A family \in {"chat", "completion"} :
            LET head == <<"openai", Colon, family, Colon>>
                model == SubSeq(providerPath, 5, Len(providerPath))
            IN (Len(providerPath) > 4 /\ SubSeq(providerPath, 1, 4) = head
                /\ ModelName(model)) =>
                   /\ loadResult.ok
                   /\ loadResult.value.tag = family
                   /\ Id(loadResult.value) = <<"openai", Colon>> \o model

IsTurnList(v) == v.t = "arr" /\ \A i \in 1..Len(v.items) : v.items[i].t = "turn"
\* the prompt is the text of a list of role/content turns
ValidTurnData(p) == JSONparse(p).ok /\ IsTurnList(JSONparse(p).val)

\* C10: the message list of the chat request is a list of turns: the parsed
\* data when the prompt is valid serialised turn data, and otherwise one user
\* turn whose content is the raw prompt.
C10_MessagesAreTurns ==
    (mode = "call" /\ adapter.tag = "chat" /\ callPc \in {"fetch", "done"}) =>
        /\ IsTurnList(messages)
        /\ IF ValidTurnData(prompt) THEN messages = JSONparse(prompt).val
           ELSE messages = JArr(<<JTurn("user", prompt)>>)

=============================================================================
